---- MODULE Spec2Model ----
(***************************************************************************)
(* Model of scripts/generate_accountant_reports.py: load_json,             *)
(* generate_csv_reports and the __main__ driver.                           *)
(*                                                                         *)
(* A JSON value is a tagged record [tag, n, s]: an absent key, null, a     *)
(* number, a string or a boolean.  Money is counted in eighths of a        *)
(* dollar, the finest unit that is exact in binary floating point and      *)
(* still shows what the ",.2f" format does to an amount that is not a      *)
(* whole number of cents (0.125 is written "$0.12", 0.375 "$0.38").        *)
(* A formatted money cell is modelled by its number of cents.              *)
(*                                                                         *)
(* Of the columns of each report the model keeps those the statements      *)
(* below speak about (identifier, year, category, amounts, flags,          *)
(* priority, counts and totals); pass-through text columns (date,          *)
(* supplier, description, notes, confidences) are left out of the rows.    *)
(* The header rows are kept whole.                                         *)
(***************************************************************************)
EXTENDS Integers, Sequences, FiniteSets, TLC

VARIABLES dir, results, company_name, pc, stats, latest

vars == <<dir, results, company_name, pc, stats, latest>>

(* ------------------------------ bounds --------------------------------- *)

\* longest results array of the single-call specification
MaxLen == 3

\* longest results array of the shared-directory specification
MaxLenDir == 2

(* --------------------------- JSON values ------------------------------- *)

Missing == [tag |-> "missing", n |-> 0, s |-> ""]

Null == [tag |-> "null", n |-> 0, s |-> ""]

Num(k) == [tag |-> "num", n |-> k, s |-> ""]

Str(t) == [tag |-> "str", n |-> 0, s |-> t]

Bool(b) == [tag |-> "bool", n |-> IF b THEN 1 ELSE 0, s |-> ""]

\* eighths of a dollar in d dollars
Dollars(d) == 8 * d

Abs(x) == IF x < 0 THEN -x ELSE x

\* dict.get(key, default): the default only when the key is absent
Get(r, key, default) == IF r[key].tag = "missing" THEN default ELSE r[key]

\* dict.get(key): None when the key is absent
GetNone(r, key) == Get(r, key, Null)

\* Python truth value of a JSON value
Truthy(v) ==
    \/ v.tag = "bool" /\ v.n = 1
    \/ v.tag = "num" /\ v.n # 0
    \/ v.tag = "str" /\ v.s # ""

\* `v or 0` where v is a number or None
OrZero(v) == IF Truthy(v) THEN v.n ELSE 0

\* what csv.writer puts in a cell: None becomes the empty string
CsvCell(v) == IF v.tag = "null" THEN Str("") ELSE v

\* r.get(key, '') as written by csv.writer
Cell(r, key) == CsvCell(Get(r, key, Str("")))

\* f"${x:,.2f}" of x eighths of a dollar, as a number of cents: the float is
\* exact, so the format rounds a half cent to the even cent
FormatMoney(x) ==
    LET a == Abs(x)
        q == (25 * a) \div 2
        c == IF (25 * a) % 2 = 0 THEN q ELSE IF q % 2 = 0 THEN q ELSE q + 1
    IN  IF x < 0 THEN -c ELSE c

(* ------------------------- string ordering ----------------------------- *)

\* the labels of the model in the order of Python's str comparison
\* (code points: '2' < 'F' < 'U')
LabelOrder == <<"", "2023-24", "FY2023-24", "FY2024-25", "Unknown">>

LabelRank(t) == CHOOSE i \in 1..Len(LabelOrder) : LabelOrder[i] = t

\* a < b for two dictionary keys; defined only for two strings
KeyLess(a, b) == LabelRank(a.s) < LabelRank(b.s)

(* ----------------------------- records ---------------------------------- *)

\* one scored transaction record of the results array
Rec(id, fy, cat, amount, claimable, rnd, fbt, div7a) ==
    [transaction_id |-> id, financial_year |-> fy, primary_category |-> cat,
     transaction_amount |-> amount, claimable_amount |-> claimable,
     is_rnd_candidate |-> rnd, fbt_implications |-> fbt, division7a_risk |-> div7a]

\* the records the single-call specification draws its results arrays from
Pool ==
    { Rec(Str("t1"), Str("FY2023-24"), Str("Travel"), Num(Dollars(800)),
          Num(Dollars(800)), Bool(FALSE), Bool(TRUE), Bool(FALSE)),
      Rec(Str("t2"), Str("FY2024-25"), Str("Software"), Num(Dollars(1000)),
          Num(Dollars(600)), Bool(TRUE), Bool(FALSE), Missing),
      Rec(Str("t3"), Str("FY2023-24"), Missing, Num(-(Dollars(250) + 1)),
          Num(Dollars(500)), Bool(TRUE), Bool(TRUE), Bool(TRUE)),
      Rec(Str("t4"), Missing, Str("Travel"), Null,
          Missing, Num(1), Null, Missing),
      Rec(Str("t5"), Str("Unknown"), Str("Unknown"), Num(1),
          Num(-1), Bool(FALSE), Bool(FALSE), Bool(TRUE)),
      Rec(Str("t6"), Null, Null, Missing,
          Null, Missing, Bool(TRUE), Bool(FALSE)),
      Rec(Str("t7"), Str("FY2023-24"), Str("Software"), Num(1),
          Num(Dollars(500) + 1), Bool(TRUE), Bool(FALSE), Bool(FALSE)),
      Rec(Str("t8"), Str("2023-24"), Str("Travel"), Num(Dollars(900)),
          Num(Dollars(800)), Bool(TRUE), Null, Bool(TRUE)) }

\* the records the shared-directory specification draws from
DirPool ==
    { r \in Pool : r.transaction_id.s \in {"t1", "t6"} }

SeqsUpTo(S, n) == UNION { [1..k -> S] : k \in 0..n }

(* ----------------------------- load_json -------------------------------- *)

\* a JSON document: an object with or without a "results" array
DocsOver(S, n) ==
    { [has_results |-> TRUE, results |-> l] : l \in SeqsUpTo(S, n) }
        \cup { [has_results |-> FALSE, results |-> <<>>] }

\* data.get('results', [])
load_json(doc) == IF doc.has_results THEN doc.results ELSE <<>>

(* ------------------------------ sorting --------------------------------- *)

RECURSIVE InsertDesc(_, _)
\* e goes behind every element whose key is not smaller: list.sort with
\* reverse=True keeps the input order of equal keys
InsertDesc(sorted, e) ==
    IF sorted = <<>> THEN <<e>>
    ELSE IF Head(sorted).key >= e.key
         THEN <<Head(sorted)>> \o InsertDesc(Tail(sorted), e)
         ELSE <<e>> \o sorted

RECURSIVE SortDesc(_, _)
\* stable descending sort of keyed[1..n] by .key
SortDesc(keyed, n) ==
    IF n = 0 THEN <<>> ELSE InsertDesc(SortDesc(keyed, n - 1), keyed[n])

RECURSIVE InsertAsc(_, _)
InsertAsc(sorted, k) ==
    IF sorted = <<>> THEN <<k>>
    ELSE IF KeyLess(k, Head(sorted))
         THEN <<k>> \o sorted
         ELSE <<Head(sorted)>> \o InsertAsc(Tail(sorted), k)

RECURSIVE SortAsc(_, _)
\* sorted(keys) for string keys
SortAsc(keys, n) ==
    IF n = 0 THEN <<>> ELSE InsertAsc(SortAsc(keys, n - 1), keys[n])

Items(keyed) == [i \in 1..Len(keyed) |-> keyed[i].item]

(* --------------------------- the file system ---------------------------- *)

\* the organisations __main__ writes reports for
Companies == {"DRQ", "DR", "CARSI"}

output_base == "D:/ATO/reports/accountant"

Kinds ==
    {"All_Transactions", "High_Value_Deductions", "RnD_Candidates",
     "FBT_Review_Required", "Division7A_Review", "Summary_By_FY", "By_Category"}

\* f"{output_dir}/{company_name}_<kind>.csv"
Path(company, kind) == output_base \o "/" \o company \o "_" \o kind \o ".csv"

Paths == { Path(c, k) : c \in Companies, k \in Kinds }

NoFile == [exists |-> FALSE, header |-> <<>>, rows |-> <<>>]

EmptyDir == [p \in Paths |-> NoFile]

\* a slip: no file is made for a report without data rows
WriteCsvSkipEmpty(d, path, header, rows) ==
    IF rows = <<>> THEN d
    ELSE [d EXCEPT ![path] = [exists |-> TRUE, header |-> header, rows |-> rows]]

\* open(path, 'w') and the writerow calls up to the close of the file: the
\* old content is gone whatever it was
WriteCsv(d, path, header, rows) ==
    [d EXCEPT ![path] = [exists |-> TRUE, header |-> header, rows |-> rows]]

YesNo(v) == IF Truthy(v) THEN "Yes" ELSE "No"

Review(v) == IF Truthy(v) THEN "YES - REVIEW" ELSE "No"

(* ----------------------- 1. master transaction list --------------------- *)

MasterHeader ==
    <<"Financial Year", "Date", "Transaction ID", "Supplier", "Amount",
      "Description", "Category", "Category Confidence",
      "Deduction Type", "Claimable Amount", "Fully Deductible",
      "R&D Candidate", "R&D Confidence", "R&D Reasoning",
      "FBT Risk", "Div7A Risk", "Requires Documentation",
      "Compliance Notes">>

MasterFbtCell(r) == Review(GetNone(r, "fbt_implications"))

\* a slip: the Div7A column copied from the FBT column
MasterDiv7aCellFbt(r) == Review(GetNone(r, "fbt_implications"))

MasterDiv7aCell(r) == Review(GetNone(r, "division7a_risk"))

MasterRow(r) ==
    [financial_year |-> Cell(r, "financial_year"),
     transaction_id |-> Cell(r, "transaction_id"),
     amount |-> Cell(r, "transaction_amount"),
     category |-> Cell(r, "primary_category"),
     claimable |-> Cell(r, "claimable_amount"),
     rnd_candidate |-> YesNo(GetNone(r, "is_rnd_candidate")),
     fbt_risk |-> MasterFbtCell(r),
     div7a_risk |-> MasterDiv7aCell(r)]

\* a slip: results itself sorted by claimable amount before the master list
\* is written
MasterRowsSorted(res) ==
    LET keyed == [i \in 1..Len(res) |->
                     [key |-> OrZero(GetNone(res[i], "claimable_amount")),
                      item |-> res[i]]]
        sorted == Items(SortDesc(keyed, Len(keyed)))
    IN  [i \in 1..Len(sorted) |-> MasterRow(sorted[i])]

\* for r in results: writer.writerow(...)
MasterRows(res) == [i \in 1..Len(res) |-> MasterRow(res[i])]

(* ----------------------- 2. high-value deductions ----------------------- *)

HighValueThreshold == 500

HighValueHeader ==
    <<"PRIORITY", "Financial Year", "Date", "Supplier", "Amount",
      "Claimable", "Deduction Type", "Category", "Confidence",
      "Transaction ID", "Documentation Required", "Notes">>

\* a slip: 500 dollars itself counted as high value
IsHighValueAtLeast(r) ==
    OrZero(GetNone(r, "claimable_amount")) >= Dollars(HighValueThreshold)

\* (r.get('claimable_amount') or 0) > 500
IsHighValue(r) ==
    OrZero(GetNone(r, "claimable_amount")) > Dollars(HighValueThreshold)

\* key=lambda x: x.get('claimable_amount', 0)
HighValueKey(r) == Get(r, "claimable_amount", Num(0)).n

\* the filtered copy of results, sorted in place with reverse=True
HighValueList(res) ==
    LET high_value == SelectSeq(res, IsHighValue)
        keyed == [i \in 1..Len(high_value) |->
                     [key |-> HighValueKey(high_value[i]), item |-> high_value[i]]]
    IN  Items(SortDesc(keyed, Len(keyed)))

HighValueRow(i, r) ==
    [priority |-> i,
     financial_year |-> Cell(r, "financial_year"),
     amount |-> Cell(r, "transaction_amount"),
     claimable |-> Cell(r, "claimable_amount"),
     category |-> Cell(r, "primary_category"),
     transaction_id |-> Cell(r, "transaction_id")]

\* for i, r in enumerate(high_value, 1)
HighValueRows(res) ==
    LET high_value == HighValueList(res)
    IN  [i \in 1..Len(high_value) |-> HighValueRow(i, high_value[i])]

(* --------------------------- 3. R&D candidates -------------------------- *)

RndHeader ==
    <<"Financial Year", "Date", "Supplier", "Amount",
      "Activity Type", "R&D Confidence", "Meets Div355",
      "Outcome Unknown", "Systematic", "New Knowledge", "Scientific Method",
      "Reasoning", "Transaction ID">>

IsRnd(r) == Truthy(GetNone(r, "is_rnd_candidate"))

\* a slip: ranked by the size of the amount, as the summaries count it
RndKeyAbs(r) == Abs(OrZero(Get(r, "transaction_amount", Num(0))))

\* key=lambda x: x.get('transaction_amount', 0) or 0
RndKey(r) == OrZero(Get(r, "transaction_amount", Num(0)))

RndList(res) ==
    LET rnd == SelectSeq(res, IsRnd)
        keyed == [i \in 1..Len(rnd) |-> [key |-> RndKey(rnd[i]), item |-> rnd[i]]]
    IN  Items(SortDesc(keyed, Len(keyed)))

RndRow(r) ==
    [financial_year |-> Cell(r, "financial_year"),
     amount |-> Cell(r, "transaction_amount"),
     transaction_id |-> Cell(r, "transaction_id")]

RndRows(res) ==
    LET rnd == RndList(res) IN [i \in 1..Len(rnd) |-> RndRow(rnd[i])]

(* --------------------- 4. FBT and 5. Division 7A lists ------------------ *)

ReviewHeader ==
    <<"Financial Year", "Date", "Supplier", "Amount",
      "Category", "Description", "Compliance Notes", "Transaction ID">>

HasFbt(r) == Truthy(GetNone(r, "fbt_implications"))

HasDiv7a(r) == Truthy(GetNone(r, "division7a_risk"))

FbtList(res) == SelectSeq(res, HasFbt)

Div7aList(res) == SelectSeq(res, HasDiv7a)

ReviewRow(r) ==
    [financial_year |-> Cell(r, "financial_year"),
     amount |-> Cell(r, "transaction_amount"),
     category |-> Cell(r, "primary_category"),
     transaction_id |-> Cell(r, "transaction_id")]

FbtRows(res) ==
    LET fbt == FbtList(res) IN [i \in 1..Len(fbt) |-> ReviewRow(fbt[i])]

Div7aRows(res) ==
    LET div7a == Div7aList(res) IN [i \in 1..Len(div7a) |-> ReviewRow(div7a[i])]

(* ----------------------- 6. summary by financial year ------------------- *)

SummaryHeader ==
    <<"Financial Year", "Transaction Count", "Total Amount", "Claimable Amount",
      "R&D Candidates", "FBT Issues", "Div7A Issues">>

\* r.get('financial_year', 'Unknown')
FyKey(r) == Get(r, "financial_year", Str("Unknown"))

\* abs(r.get('transaction_amount', 0) or 0)
TotalTerm(r) == Abs(OrZero(Get(r, "transaction_amount", Num(0))))

\* r.get('claimable_amount', 0) or 0
ClaimableTerm(r) == OrZero(Get(r, "claimable_amount", Num(0)))

Flag(v) == IF Truthy(v) THEN 1 ELSE 0

\* position of key in the dictionary d (a sequence of entries in insertion
\* order), 0 when the key is not in it
IndexOf(d, key) ==
    IF \E i \in 1..Len(d) : d[i].key = key
    THEN CHOOSE i \in 1..Len(d) : d[i].key = key
    ELSE 0

\* the body of the loop over results that fills by_fy
AddToFy(by_fy, r) ==
    LET fy == FyKey(r)
        d == IF IndexOf(by_fy, fy) = 0
             THEN Append(by_fy, [key |-> fy, count |-> 0, total |-> 0,
                                 claimable |-> 0, rnd |-> 0, fbt |-> 0, div7a |-> 0])
             ELSE by_fy
        i == IndexOf(d, fy)
    IN  [d EXCEPT ![i] =
            [key |-> fy,
             count |-> d[i].count + 1,
             total |-> d[i].total + TotalTerm(r),
             claimable |-> d[i].claimable + ClaimableTerm(r),
             rnd |-> d[i].rnd + Flag(GetNone(r, "is_rnd_candidate")),
             fbt |-> d[i].fbt + Flag(GetNone(r, "fbt_implications")),
             div7a |-> d[i].div7a + Flag(GetNone(r, "division7a_risk"))]]

RECURSIVE ByFy(_, _)
\* by_fy after the first n records
ByFy(res, n) == IF n = 0 THEN <<>> ELSE AddToFy(ByFy(res, n - 1), res[n])

DictKeys(d) == [i \in 1..Len(d) |-> d[i].key]

\* sorted(by_fy.keys()) raises TypeError as soon as None is compared with
\* anything, which happens whenever None is one of two or more keys
SortedRaises(keys) ==
    Len(keys) >= 2 /\ \E i \in 1..Len(keys) : keys[i].tag = "null"

\* a slip: the keys walked in insertion order
FyOrderUnsorted(keys) == keys

\* the order in which the report walks the keys of by_fy
FyOrder(keys) == SortAsc(keys, Len(keys))

FyRow(e) ==
    [financial_year |-> CsvCell(e.key),
     count |-> e.count,
     total |-> FormatMoney(e.total),
     claimable |-> FormatMoney(e.claimable),
     rnd |-> e.rnd, fbt |-> e.fbt, div7a |-> e.div7a]

\* for fy in sorted(by_fy.keys()): writer.writerow(...)
FyRows(res) ==
    LET by_fy == ByFy(res, Len(res))
        order == FyOrder(DictKeys(by_fy))
    IN  [i \in 1..Len(order) |-> FyRow(by_fy[IndexOf(by_fy, order[i])])]

(* -------------------------- 7. by category ------------------------------ *)

CategoryHeader ==
    <<"Category", "Transaction Count", "Total Amount", "Claimable Amount">>

\* r.get('primary_category', 'Unknown')
CatKey(r) == Get(r, "primary_category", Str("Unknown"))

\* a slip: the category total adds the signed amount
AddToCatSigned(by_cat, r) ==
    LET cat == CatKey(r)
        d == IF IndexOf(by_cat, cat) = 0
             THEN Append(by_cat, [key |-> cat, count |-> 0, total |-> 0,
                                  claimable |-> 0])
             ELSE by_cat
        i == IndexOf(d, cat)
    IN  [d EXCEPT ![i] =
            [key |-> cat,
             count |-> d[i].count + 1,
             total |-> d[i].total + OrZero(Get(r, "transaction_amount", Num(0))),
             claimable |-> d[i].claimable + ClaimableTerm(r)]]

AddToCat(by_cat, r) ==
    LET cat == CatKey(r)
        d == IF IndexOf(by_cat, cat) = 0
             THEN Append(by_cat, [key |-> cat, count |-> 0, total |-> 0,
                                  claimable |-> 0])
             ELSE by_cat
        i == IndexOf(d, cat)
    IN  [d EXCEPT ![i] =
            [key |-> cat,
             count |-> d[i].count + 1,
             total |-> d[i].total + TotalTerm(r),
             claimable |-> d[i].claimable + ClaimableTerm(r)]]

RECURSIVE ByCat(_, _)
ByCat(res, n) == IF n = 0 THEN <<>> ELSE AddToCat(ByCat(res, n - 1), res[n])

\* a slip: the categories ranked by total amount
CatSortKeyTotal(e) == e.total

\* key=lambda x: by_cat[x]['claimable']
CatSortKey(e) == e.claimable

\* sorted(by_cat.keys(), key=..., reverse=True), as the entries in that order
CatOrder(by_cat) ==
    LET keyed == [i \in 1..Len(by_cat) |->
                     [key |-> CatSortKey(by_cat[i]), item |-> by_cat[i]]]
    IN  Items(SortDesc(keyed, Len(keyed)))

CatRow(e) ==
    [category |-> CsvCell(e.key),
     count |-> e.count,
     total |-> FormatMoney(e.total),
     claimable |-> FormatMoney(e.claimable)]

CatRows(res) ==
    LET order == CatOrder(ByCat(res, Len(res)))
    IN  [i \in 1..Len(order) |-> CatRow(order[i])]

(* ------------------------ generate_csv_reports -------------------------- *)

\* a slip: the two review counts swapped
StatsSwapped(res) ==
    [total_transactions |-> Len(res),
     high_value |-> Len(HighValueList(res)),
     rnd_candidates |-> Len(RndList(res)),
     fbt_issues |-> Len(Div7aList(res)),
     div7a_issues |-> Len(FbtList(res))]

\* the dictionary the function returns
Stats(res) ==
    [total_transactions |-> Len(res),
     high_value |-> Len(HighValueList(res)),
     rnd_candidates |-> Len(RndList(res)),
     fbt_issues |-> Len(FbtList(res)),
     div7a_issues |-> Len(Div7aList(res))]

\* the directory after the first five reports are written
FirstFive(d, res, company) ==
    LET d1 == WriteCsv(d, Path(company, "All_Transactions"),
                       MasterHeader, MasterRows(res))
        d2 == WriteCsv(d1, Path(company, "High_Value_Deductions"),
                       HighValueHeader, HighValueRows(res))
        d3 == WriteCsv(d2, Path(company, "RnD_Candidates"),
                       RndHeader, RndRows(res))
        d4 == WriteCsv(d3, Path(company, "FBT_Review_Required"),
                       ReviewHeader, FbtRows(res))
    IN  WriteCsv(d4, Path(company, "Division7A_Review"),
                 ReviewHeader, Div7aRows(res))

\* the whole call on directory d: the directory it leaves, how it ends and
\* what it returns.  When sorted() raises, the summary file is already open
\* with its header written and the category report is never reached.
generate_csv_reports(d, res, company) ==
    LET d5 == FirstFive(d, res, company)
    IN  IF SortedRaises(DictKeys(ByFy(res, Len(res))))
        THEN [dir |-> WriteCsv(d5, Path(company, "Summary_By_FY"),
                               SummaryHeader, <<>>),
              outcome |-> "raised",
              stats |-> <<>>]
        ELSE [dir |-> WriteCsv(WriteCsv(d5, Path(company, "Summary_By_FY"),
                                         SummaryHeader, FyRows(res)),
                               Path(company, "By_Category"),
                               CategoryHeader, CatRows(res)),
              outcome |-> "returned",
              stats |-> <<Stats(res)>>]

(* ------------------------------ the state ------------------------------- *)
(* dir          the files of the output directory                          *)
(* results      the array load_json returned for the call at hand          *)
(* company_name the organisation of the call at hand                       *)
(* pc           "call" before the call, then "returned" or "raised"        *)
(* stats        per organisation, the value its last returning call gave   *)
(* latest       per organisation, the most recent call: its argument and   *)
(*              how it ended ("none" before any call)                      *)

\* the organisations of the shared-directory specification
DirCompanies == {"DRQ", "DR"}

Start(docs, companies) ==
    /\ dir = EmptyDir
    /\ \E doc \in docs : results = load_json(doc)
    /\ company_name \in companies
    /\ pc = "call"
    /\ stats = [c \in Companies |-> <<>>]
    /\ latest = [c \in Companies |-> [status |-> "none", results |-> <<>>]]

Init == Start(DocsOver(Pool, MaxLen), Companies)

InitDir == Start(DocsOver(DirPool, MaxLenDir), DirCompanies)

\* one call generate_csv_reports(results, company_name, output_base)
GenerateCsvReports ==
    /\ pc = "call"
    /\ LET out == generate_csv_reports(dir, results, company_name)
       IN  /\ dir' = out.dir
           /\ pc' = out.outcome
           /\ stats' = IF out.outcome = "returned"
                       THEN [stats EXCEPT ![company_name] = out.stats]
                       ELSE stats
           /\ latest' = [latest EXCEPT ![company_name] =
                            [status |-> out.outcome, results |-> results]]
    /\ UNCHANGED <<results, company_name>>

\* the driver moves on: it loads the next document and names the next
\* organisation (after a raise, this is the next run of the script)
LoadJson ==
    /\ pc \in {"returned", "raised"}
    /\ \E doc \in DocsOver(DirPool, MaxLenDir) : results' = load_json(doc)
    /\ company_name' \in DirCompanies
    /\ pc' = "call"
    /\ UNCHANGED <<dir, stats, latest>>

Next == GenerateCsvReports

NextDir == GenerateCsvReports \/ LoadJson

Spec == Init /\ [][Next]_vars

SpecDir == InitDir /\ [][NextDir]_vars

(* ======================================================================== *)
(* The statements.  They read the files of the directory and the argument   *)
(* of the call, and say what the former must be in terms of the latter.     *)
(* ======================================================================== *)

Returned == pc = "returned"

\* the call has run, to its return or to a raise
Called == pc \in {"returned", "raised"}

\* the data rows of a report of the organisation of the call at hand
RowsOf(kind) == dir[Path(company_name, kind)].rows

Indices == 1..Len(results)

\* the number a cell shows, an empty cell counted as 0
CellNumber(cell) == IF cell.tag = "num" THEN cell.n ELSE 0

\* how many rows carry the identifier of record r
RowsWithId(rows, r) ==
    Cardinality({ i \in 1..Len(rows) : rows[i].transaction_id = r.transaction_id })

\* how many records of the input equal r and satisfy Wanted
Occurrences(r, Wanted(_)) ==
    Cardinality({ i \in Indices : results[i] = r /\ Wanted(results[i]) })

\* the rows are exactly the input records that satisfy Wanted, each as often
\* as it occurs in the input
ExactlyTheRecords(rows, Wanted(_)) ==
    /\ Len(rows) = Cardinality({ i \in Indices : Wanted(results[i]) })
    /\ \A i \in Indices : RowsWithId(rows, results[i]) = Occurrences(results[i], Wanted)

\* the identifiers of a sequence of rows or of records
IdsOf(rows) == [i \in 1..Len(rows) |-> rows[i].transaction_id]

RECURSIVE SumOver(_, _)
\* the sum of f over the set S of its arguments
SumOver(f, S) ==
    IF S = {} THEN 0
    ELSE LET x == CHOOSE x \in S : TRUE IN f[x] + SumOver(f, S \ {x})

SumField(rows, field) ==
    SumOver([i \in 1..Len(rows) |-> rows[i][field]], 1..Len(rows))

AmountOf(r) ==
    IF r.transaction_amount.tag = "num" THEN r.transaction_amount.n ELSE 0

ClaimableOf(r) ==
    IF r.claimable_amount.tag = "num" THEN r.claimable_amount.n ELSE 0

SumAbsAmount(S) == SumOver([i \in Indices |-> Abs(AmountOf(results[i]))], S)

SumClaimable(S) == SumOver([i \in Indices |-> ClaimableOf(results[i])], S)

CountTruthy(S, field) ==
    Cardinality({ i \in S : Truthy(results[i][field]) })

(* -------------------------------- C1 ------------------------------------ *)

HeaderOf(kind) ==
    CASE kind = "All_Transactions" -> MasterHeader
      [] kind = "High_Value_Deductions" -> HighValueHeader
      [] kind = "RnD_Candidates" -> RndHeader
      [] kind = "FBT_Review_Required" -> ReviewHeader
      [] kind = "Division7A_Review" -> ReviewHeader
      [] kind = "Summary_By_FY" -> SummaryHeader
      [] kind = "By_Category" -> CategoryHeader

\* C1: after a call that returned, whatever the results array (the empty one
\* included) and the company, the directory holds exactly seven files, the
\* seven reports named after the company, and each starts with its header
\* row, also when it has no data row.
InvC1 ==
    Returned =>
        /\ \A k \in Kinds :
              /\ dir[Path(company_name, k)].exists
              /\ dir[Path(company_name, k)].header = HeaderOf(k)
              /\ Len(dir[Path(company_name, k)].header) > 0
        /\ Cardinality({ p \in Paths : dir[p].exists }) = 7
        /\ { p \in Paths : dir[p].exists } = { Path(company_name, k) : k \in Kinds }

\* a call on the empty array has returned: seven files, none with a data row
WitC1 ==
    /\ Returned
    /\ results = <<>>
    /\ \A k \in Kinds : dir[Path(company_name, k)].exists /\ RowsOf(k) = <<>>

(* -------------------------------- C2 ------------------------------------ *)

OverThreshold(r) ==
    r.claimable_amount.tag = "num" /\ r.claimable_amount.n > Dollars(500)

\* C2: the high-value report holds exactly the input records whose claimable
\* amount is strictly greater than 500 dollars (500 itself, an absent and a
\* null amount are left out), in non-increasing order of claimable amount,
\* and the PRIORITY of the k-th data row is k.
InvC2 ==
    Called =>
        LET rows == RowsOf("High_Value_Deductions")
        IN  /\ ExactlyTheRecords(rows, OverThreshold)
            /\ \A i, j \in 1..Len(rows) :
                  i < j => CellNumber(rows[i].claimable) >= CellNumber(rows[j].claimable)
            /\ \A k \in 1..Len(rows) : rows[k].priority = k

\* the input holds a record of exactly 500 dollars, which the report leaves
\* out, and the two records it keeps come out in the other order
WitC2 ==
    /\ Returned
    /\ \E i \in Indices : results[i].claimable_amount = Num(Dollars(500))
    /\ Len(RowsOf("High_Value_Deductions")) = 2
    /\ IdsOf(RowsOf("High_Value_Deductions")) # IdsOf(SelectSeq(results, OverThreshold))

(* -------------------------------- C3 ------------------------------------ *)

RndFlagged(r) == Truthy(r.is_rnd_candidate)

\* C3: the R&D report holds exactly the input records whose is_rnd_candidate
\* flag is truthy, and of two consecutive rows the earlier one has the greater
\* or equal transaction amount, an absent or null amount counted as 0.
InvC3 ==
    Called =>
        LET rows == RowsOf("RnD_Candidates")
        IN  /\ ExactlyTheRecords(rows, RndFlagged)
            /\ \A i \in 1..Len(rows) :
                  i < Len(rows) =>
                      CellNumber(rows[i].amount) >= CellNumber(rows[i + 1].amount)

\* three candidates, one with a negative and one with an empty amount, came
\* out in another order than they went in
WitC3 ==
    /\ Returned
    /\ Len(RowsOf("RnD_Candidates")) = 3
    /\ \E i \in 1..3 : RowsOf("RnD_Candidates")[i].amount = Str("")
    /\ \E i \in 1..3 : CellNumber(RowsOf("RnD_Candidates")[i].amount) < 0
    /\ IdsOf(RowsOf("RnD_Candidates")) # IdsOf(SelectSeq(results, RndFlagged))

(* -------------------------------- C4 ------------------------------------ *)

CategoryOf(r) ==
    IF r.primary_category.tag = "missing" THEN Str("Unknown") ELSE r.primary_category

Categories == { CategoryOf(results[i]) : i \in Indices }

InCategory(c) == { i \in Indices : CategoryOf(results[i]) = c }

\* the category a row of the category report stands for
CategoryOfRow(row) == CHOOSE c \in Categories : CsvCell(c) = row.category

YearOf(r) ==
    IF r.financial_year.tag = "missing" THEN Str("Unknown") ELSE r.financial_year

Years == { YearOf(results[i]) : i \in Indices }

InYear(y) == { i \in Indices : YearOf(results[i]) = y }

InvC6 ==
    Called =>
        LET rows == RowsOf("All_Transactions")
        IN  /\ Len(rows) = Len(results)
            /\ \A i \in Indices :
                  /\ rows[i].transaction_id = CsvCell(results[i].transaction_id)
                  /\ rows[i].financial_year = CsvCell(Get(results[i], "financial_year", Str("")))
                  /\ rows[i].amount = CsvCell(Get(results[i], "transaction_amount", Str("")))
                  /\ rows[i].claimable = CsvCell(Get(results[i], "claimable_amount", Str("")))

\* both sorted reports hold every record of the input, each in another order
\* than the input's, and one record occurs twice
WitC6 ==
    /\ Returned
    /\ Len(results) = 3
    /\ Len(RowsOf("High_Value_Deductions")) = 3
    /\ Len(RowsOf("RnD_Candidates")) = 3
    /\ IdsOf(RowsOf("High_Value_Deductions")) # IdsOf(results)
    /\ IdsOf(RowsOf("RnD_Candidates")) # IdsOf(results)
    /\ \E i, j \in Indices : i # j /\ results[i] = results[j]

(* -------------------------------- C7 ------------------------------------ *)

FbtFlagged(r) == Truthy(r.fbt_implications)

Div7aFlagged(r) == Truthy(r.division7a_risk)

\* the rows of the master list that say 'YES - REVIEW' in the given column
MasterMarked(column) ==
    LET Marked(row) == row[column] = "YES - REVIEW"
    IN  SelectSeq(RowsOf("All_Transactions"), Marked)

\* C7: the FBT list holds exactly the input records whose fbt_implications is
\* truthy and the Division 7A list exactly those whose division7a_risk is
\* truthy, each in input order; a record with both flags is in both lists; a
\* master row says 'YES - REVIEW' under FBT Risk (Div7A Risk) exactly when its
\* record is in the FBT (Division 7A) list.
InvC7 ==
    Called =>
        /\ IdsOf(RowsOf("FBT_Review_Required")) = IdsOf(SelectSeq(results, FbtFlagged))
        /\ IdsOf(RowsOf("Division7A_Review")) = IdsOf(SelectSeq(results, Div7aFlagged))
        /\ IdsOf(MasterMarked("fbt_risk")) = IdsOf(RowsOf("FBT_Review_Required"))
        /\ IdsOf(MasterMarked("div7a_risk")) = IdsOf(RowsOf("Division7A_Review"))
        /\ \A i \in Indices :
              /\ RowsOf("All_Transactions")[i].fbt_risk \in {"YES - REVIEW", "No"}
              /\ RowsOf("All_Transactions")[i].div7a_risk \in {"YES - REVIEW", "No"}
              /\ FbtFlagged(results[i]) /\ Div7aFlagged(results[i]) =>
                    /\ RowsWithId(RowsOf("FBT_Review_Required"), results[i]) >= 1
                    /\ RowsWithId(RowsOf("Division7A_Review"), results[i]) >= 1

\* one record is in both lists, one in the FBT list alone, one in the
\* Division 7A list alone
WitC7 ==
    /\ Returned
    /\ \E i \in Indices : FbtFlagged(results[i]) /\ Div7aFlagged(results[i])
    /\ \E i \in Indices : FbtFlagged(results[i]) /\ ~Div7aFlagged(results[i])
    /\ \E i \in Indices : ~FbtFlagged(results[i]) /\ Div7aFlagged(results[i])
    /\ Len(RowsOf("FBT_Review_Required")) = 2
    /\ Len(RowsOf("Division7A_Review")) = 2

(* -------------------------------- C8 ------------------------------------ *)

\* C8: the statistics a call returns are the numbers of data rows it wrote:
\* total_transactions for the master list, high_value, rnd_candidates,
\* fbt_issues and div7a_issues for their reports; each of the last four is at
\* most total_transactions.
InvC8 ==
    Returned =>
        /\ Len(stats[company_name]) = 1
        /\ LET s == stats[company_name][1]
           IN  /\ s.total_transactions = Len(RowsOf("All_Transactions"))
               /\ s.high_value = Len(RowsOf("High_Value_Deductions"))
               /\ s.rnd_candidates = Len(RowsOf("RnD_Candidates"))
               /\ s.fbt_issues = Len(RowsOf("FBT_Review_Required"))
               /\ s.div7a_issues = Len(RowsOf("Division7A_Review"))
               /\ s.high_value <= s.total_transactions
               /\ s.rnd_candidates <= s.total_transactions
               /\ s.fbt_issues <= s.total_transactions
               /\ s.div7a_issues <= s.total_transactions

\* a call returned five different numbers
WitC8 ==
    /\ Returned
    /\ Len(stats[company_name]) = 1
    /\ LET s == stats[company_name][1]
       IN  /\ s.total_transactions = 3
           /\ s.rnd_candidates = 2
           /\ s.high_value = 1
           /\ s.fbt_issues = 1
           /\ s.div7a_issues = 0

(* -------------------------------- C9 ------------------------------------ *)

\* the counts of the two summaries add up to the number of records, and the
\* flag counts of the year summary to the returned statistics
CountsAgree ==
    /\ SumField(RowsOf("Summary_By_FY"), "count") = Len(results)
    /\ SumField(RowsOf("By_Category"), "count") = Len(results)
    /\ Len(stats[company_name]) = 1
    /\ SumField(RowsOf("Summary_By_FY"), "rnd") = stats[company_name][1].rnd_candidates
    /\ SumField(RowsOf("Summary_By_FY"), "fbt") = stats[company_name][1].fbt_issues
    /\ SumField(RowsOf("Summary_By_FY"), "div7a") = stats[company_name][1].div7a_issues

\* every amount of the input is a whole number of cents
WholeCents ==
    \A i \in Indices :
        /\ (25 * AmountOf(results[i])) % 2 = 0
        /\ (25 * ClaimableOf(results[i])) % 2 = 0

\* twice the distance, in cents, of the two summaries' sums of a money column
TwiceGap(field) ==
    2 * Abs(SumField(RowsOf("Summary_By_FY"), field)
              - SumField(RowsOf("By_Category"), field))

RowCount == Len(RowsOf("Summary_By_FY")) + Len(RowsOf("By_Category"))

WitC9Whole ==
    /\ Returned
    /\ WholeCents
    /\ Len(RowsOf("Summary_By_FY")) = 3
    /\ Len(RowsOf("By_Category")) = 2

(* -------------------------------- C10 ----------------------------------- *)

\* the seven report files of an organisation in directory d
FilesOf(d, company) == [k \in Kinds |-> d[Path(company, k)]]

\* what a call with these results writes for the organisation, by itself
WrittenBy(res, company) ==
    FilesOf(generate_csv_reports(EmptyDir, res, company).dir, company)

\* C10: after any sequence of calls into the shared directory, the seven files
\* of an organisation hold exactly what the most recent call for that
\* organisation wrote (nothing before its first call): calls for other
\* organisations leave them alone, and a repeated call leaves the same
\* contents, rows neither accumulated nor doubled.
InvC10 ==
    \A c \in Companies :
        IF latest[c].status = "none"
        THEN \A k \in Kinds : ~dir[Path(c, k)].exists
        ELSE FilesOf(dir, c) = WrittenBy(latest[c].results, c)

\* the same for the organisations whose most recent call returned
InvC10Returned ==
    \A c \in Companies :
        /\ latest[c].status = "none" => \A k \in Kinds : ~dir[Path(c, k)].exists
        /\ latest[c].status = "returned" =>
              FilesOf(dir, c) = WrittenBy(latest[c].results, c)

\* a call leaves the files of every other organisation as they were
OthersUntouched ==
    [][\A c \in Companies :
          c # company_name => FilesOf(dir', c) = FilesOf(dir, c)]_vars

\* the most recent call of an organisation raised after an earlier one had
\* returned: the category report still shows the earlier call
StaleCategoryReport ==
    \E c \in Companies :
        /\ latest[c].status = "raised"
        /\ dir[Path(c, "By_Category")].exists
        /\ dir[Path(c, "By_Category")].rows # <<>>
        /\ dir[Path(c, "Summary_By_FY")].rows = <<>>

====
